---- MODULE Spec2Model ----
(***************************************************************************)
(* ZKPAuth: Schnorr identification and the Richens capsule attestation.    *)
(*                                                                         *)
(* The group parameters (zkpauth/constants.py) are a small prime-order     *)
(* group: G generates the subgroup of order Q of the integers modulo the   *)
(* prime P.  SHAKE-256 is a lazily sampled random oracle (the three        *)
(* blocks of its output are drawn when a material is first hashed) and     *)
(* BLAKE2b is collision free: its digest is a tagged copy of the message.  *)
(***************************************************************************)
EXTENDS Integers, Sequences, FiniteSets, TLC

VARIABLES
    \* ---- Richens attestation (richens.py, zkp_auth.py richens-login) ----
    rpc,         \* position of the attestation attempt
    essence,     \* the participant's secret byte string
    context,     \* the context the capsule was minted with
    shake,       \* SHAKE-256 blocks of essence + context, reduced modulo Q
    capsule,     \* the capsule returned by mint_capsule
    challenge,   \* the challenge respond_to_challenge was called with
    proof,       \* the proof returned by respond_to_challenge
    vcapsule,    \* the capsule handed to verify_attestation
    vchallenge,  \* the challenge handed to verify_attestation
    vproof,      \* the proof handed to verify_attestation
    tamper,      \* what was changed between respond and verify
    loaded,      \* outcome of RichensCapsule.from_dict
    result,      \* outcome of verify_attestation
    \* ---- issue_challenge loop (richens.py) ----
    ipc,         \* position inside issue_challenge
    bits,        \* the requested bit size
    candidate,   \* the last value drawn by secrets.randbits
    \* ---- Schnorr (crypto.py, auth.py) ----
    spc,         \* position of authenticate
    regSecret,   \* the secret behind the stored public key
    publicKey,   \* the stored public key
    secret,      \* the secret passed to authenticate
    transcripts, \* the serialized rounds run so far
    successRounds, \* authenticate's success_rounds counter
    success,     \* authenticate's success flag
    built,       \* outcome of the last SchnorrProver / SchnorrVerifier construction
    \* ---- repeated attempts against one capsule (richens.py) ----
    history,     \* the results of the attempts already made against the capsule
    reminted,    \* the capsule a second mint_capsule(essence, context) returned
    \* ---- credential store (store.py) ----
    file,        \* the "users" list of the store file
    apc,         \* position of each caller inside UserStore.add_user
    call,        \* the arguments of each caller's add_user
    payload,     \* the users list each caller loaded
    ret,         \* what each caller's add_user returned or raised
    calls,       \* number of add_user calls started
    overlap,     \* whether an add_user call started while another was under way
    \* ---- login service (server.py) ----
    sessions,    \* _SessionManager._sessions
    created,     \* number of sessions created so far
    started,     \* per session still open or just answered: the login_start
                 \* request and the challenge drawn for it
    finished,    \* session ids login_finish has been called with
    checked,     \* session ids whose challenge a response was verified against
    reply        \* the last answer of the service

richVars == <<rpc, essence, context, shake, capsule, challenge, proof,
              vcapsule, vchallenge, vproof, tamper, loaded, result>>
issueVars == <<ipc, bits, candidate>>
schVars == <<spc, regSecret, publicKey, secret, transcripts, successRounds,
             success, built>>
reuseVars == <<history, reminted>>
storeVars == <<file, apc, call, payload, ret, calls, overlap>>
srvVars == <<sessions, created, started, finished, checked, reply>>
vars == <<richVars, issueVars, schVars, reuseVars, storeVars, srvVars>>

----------------------------------------------------------------------------
(* Group parameters: constants.py *)

P == 11
Q == 5
G == 3
CHALLENGE_BITS == 3
ROUNDS == 2

(* Bounds of the model *)

MaxEssenceLen == 1
MaxContextLen == 1
MaxChallenge == 6
MaxBits == 8
MaxComponent == 21
NumProcs == 2
MaxCalls == 3
MaxSessions == 2
MaxAttempts == 1

----------------------------------------------------------------------------
(* Python integer primitives *)

Abs(n) == IF n < 0 THEN -n ELSE n

Min(a, b) == IF a < b THEN a ELSE b

Max(a, b) == IF a > b THEN a ELSE b

RECURSIVE Pow2(_)
Pow2(n) == IF n <= 0 THEN 1 ELSE 2 * Pow2(n - 1)

\* int.bit_length()
RECURSIVE BitLength(_)
BitLength(n) == IF Abs(n) = 0 THEN 0 ELSE 1 + BitLength(Abs(n) \div 2)

\* pow(base, exponent, modulus) for exponent >= 0
RECURSIVE ModExp(_, _, _)
ModExp(base, exponent, modulus) ==
    IF exponent = 0 THEN 1 % modulus
    ELSE ((base % modulus) * ModExp(base, exponent - 1, modulus)) % modulus

\* pow(base, -1, modulus): the inverse of an invertible base
Inverse(base, modulus) ==
    CHOOSE i \in 0..(modulus - 1) : (i * base) % modulus = 1 % modulus

\* pow(base, exponent, modulus), a negative exponent inverting the base
PyPow(base, exponent, modulus) ==
    IF exponent >= 0 THEN ModExp(base, exponent, modulus)
    ELSE ModExp(Inverse(base, modulus), -exponent, modulus)

----------------------------------------------------------------------------
(* Byte strings and digests *)

\* big-endian base-256 digits of value >= 0, at least `length` of them
RECURSIVE ToBytes(_, _)
ToBytes(value, length) ==
    IF length <= 0 THEN <<>>
    ELSE Append(ToBytes(value \div 256, length - 1), value % 256)

IntToBytesRaises(value) == value < 0

IntToBytes(value) ==
    ToBytes(value, Max(1, (BitLength(value) + 7) \div 8))

\* str.encode("utf-8") of a string given by its code points (below 2048)
RECURSIVE Utf8(_)
Utf8(s) ==
    IF s = <<>> THEN <<>>
    ELSE (IF Head(s) < 128 THEN <<Head(s)>>
          ELSE <<192 + (Head(s) \div 64), 128 + (Head(s) % 64)>>) \o Utf8(Tail(s))

\* hashlib.blake2b(message, digest_size=32).hexdigest(): an ASCII string
Blake2b(message) == [ascii |-> TRUE, hex |-> message]

\* secrets.compare_digest on two str: TypeError unless both are ASCII
CompareDigestRaises(a, b) == ~a.ascii \/ ~b.ascii

CompareDigest(a, b) == a = b

----------------------------------------------------------------------------
(* Hexadecimal strings: hex(n) and int(s, 16) *)

HexDigitChars ==
    <<"0", "1", "2", "3", "4", "5", "6", "7", "8", "9", "a", "b", "c", "d", "e", "f">>

RECURSIVE HexDigits(_)
HexDigits(n) ==
    IF n < 16 THEN <<HexDigitChars[n + 1]>>
    ELSE Append(HexDigits(n \div 16), HexDigitChars[(n % 16) + 1])

\* hex(n): "0x1f", "-0x1f"
Hex(n) == (IF n < 0 THEN <<"-">> ELSE <<>>) \o <<"0", "x">> \o HexDigits(Abs(n))

IsHexDigit(ch) == \E i \in 1..16 : HexDigitChars[i] = ch

\* DigitValue counting the digits from one
DigitValueFromOne(ch) == CHOOSE i \in 1..16 : HexDigitChars[i] = ch

DigitValue(ch) == (CHOOSE i \in 1..16 : HexDigitChars[i] = ch) - 1

RECURSIVE DigitsValue(_)
DigitsValue(ds) ==
    IF ds = <<>> THEN 0
    ELSE 16 * DigitsValue(SubSeq(ds, 1, Len(ds) - 1)) + DigitValue(ds[Len(ds)])

Unsigned(s) == IF Len(s) > 0 /\ s[1] = "-" THEN Tail(s) ELSE s

Unprefixed(s) ==
    IF Len(s) >= 2 /\ s[1] = "0" /\ s[2] = "x" THEN SubSeq(s, 3, Len(s)) ELSE s

\* int(s, 16) raises ValueError on anything but [-][0x]<hex digits>
IntFromHexRaises(s) ==
    LET ds == Unprefixed(Unsigned(s))
    IN  ds = <<>> \/ \E i \in 1..Len(ds) : ~IsHexDigit(ds[i])

IntFromHex(s) ==
    LET v == DigitsValue(Unprefixed(Unsigned(s)))
    IN  IF Len(s) > 0 /\ s[1] = "-" THEN -v ELSE v

----------------------------------------------------------------------------
(* richens.py *)

\* hashlib.shake_256(material).digest(96) as three 32-byte integers
Shake256(material) == shake[material]

DeriveCoefficients(e, c) ==
    LET material == e \o Utf8(c)
        stream == Shake256(material)
    IN  <<stream[1] % Q, stream[2] % Q, stream[3] % Q>>

ComputeFingerprintRaises(vector) == \E i \in 1..3 : IntToBytesRaises(vector[i])

\* ComputeFingerprint without the update that hashes the context
ComputeFingerprintNoContext(vector, c) ==
    Blake2b(IntToBytes(vector[1]) \o IntToBytes(vector[2]) \o IntToBytes(vector[3]))

ComputeFingerprint(vector, c) ==
    Blake2b(IntToBytes(vector[1]) \o IntToBytes(vector[2]) \o IntToBytes(vector[3])
            \o Utf8(c))

DeriveAnchor(vector) ==
    (PyPow(vector[1], 2, P) * PyPow(vector[2], 3, P) * PyPow(vector[3], 5, P)) % P

ToDict(cap) ==
    [vector |-> <<Hex(cap.vector[1]), Hex(cap.vector[2]), Hex(cap.vector[3])>>,
     context |-> cap.context,
     anchor |-> Hex(cap.anchor),
     fingerprint |-> cap.fingerprint]

\* RichensCapsule.from_dict: the capsule it builds and how the call ends
FromDict(data) ==
    IF (\E i \in 1..3 : IntFromHexRaises(data.vector[i])) \/ IntFromHexRaises(data.anchor)
    THEN [status |-> "ValueError: invalid literal", capsule |-> data]
    ELSE
      LET cap == [vector |-> <<IntFromHex(data.vector[1]), IntFromHex(data.vector[2]),
                               IntFromHex(data.vector[3])>>,
                  context |-> data.context,
                  anchor |-> IntFromHex(data.anchor),
                  fingerprint |-> data.fingerprint]
      IN  IF cap.anchor # DeriveAnchor(cap.vector)
          THEN [status |-> "ValueError: Capsule anchor mismatch", capsule |-> cap]
          ELSE IF ComputeFingerprintRaises(cap.vector)
          THEN [status |-> "OverflowError", capsule |-> cap]
          ELSE IF cap.fingerprint # ComputeFingerprint(cap.vector, cap.context)
          THEN [status |-> "ValueError: Capsule fingerprint mismatch", capsule |-> cap]
          ELSE [status |-> "ok", capsule |-> cap]

\* RichensProof.to_dict
ProofToDict(prf) ==
    [response |-> Hex(prf.response), orbital |-> Hex(prf.orbital), parity |-> prf.parity]

\* RichensProof.from_dict: the proof it builds and how the call ends
ProofFromDict(data) ==
    IF IntFromHexRaises(data.response) \/ IntFromHexRaises(data.orbital)
    THEN [status |-> "ValueError: invalid literal", proof |-> data]
    ELSE [status |-> "ok",
          proof |-> [response |-> IntFromHex(data.response),
                     orbital |-> IntFromHex(data.orbital),
                     parity |-> data.parity]]

mint_capsule(e, c) ==
    LET coefficients == DeriveCoefficients(e, c)
        vector == <<PyPow(G, coefficients[1], P), PyPow(G, coefficients[2], P),
                    PyPow(G, coefficients[3], P)>>
    IN  [vector |-> vector,
         context |-> c,
         anchor |-> DeriveAnchor(vector),
         fingerprint |-> ComputeFingerprint(vector, c)]

\* the values issue_challenge(bits) can return; randbits raises on bits < 0
IssueChallengeSize(b) == Min(b, BitLength(Q))

IssueChallengeValues(b) ==
    IF IssueChallengeSize(b) < 0 THEN {}
    ELSE {v \in 0..(Pow2(IssueChallengeSize(b)) - 1) : 0 < v /\ v < Q}

\* Polynomial with the challenge not squared
PolynomialLinear(a, b, c, t) == (a + b * t + c * t) % Q

Polynomial(a, b, c, t) == (a + b * t + c * PyPow(t, 2, Q)) % Q

\* ParityDigest without the context
ParityDigestNoContext(t, orbital, c) ==
    Blake2b(IntToBytes(t) \o IntToBytes(orbital))

ParityDigest(t, orbital, c) ==
    Blake2b(IntToBytes(t) \o IntToBytes(orbital) \o Utf8(c))

respond_to_challenge(e, t, c) ==
    LET abc == DeriveCoefficients(e, c)
        challenge_mod == t % Q
        polynomial == Polynomial(abc[1], abc[2], abc[3], challenge_mod)
        orbital == PyPow(G, polynomial, P)
    IN  [response |-> polynomial,
         orbital |-> orbital,
         parity |-> ParityDigest(challenge_mod, orbital, c)]

\* Expected with the challenge not squared
ExpectedUnsquared(vector, t) ==
    LET e1 == PyPow(vector[1], 1, P)
        e2 == (e1 * PyPow(vector[2], t, P)) % P
    IN  (e2 * PyPow(vector[3], t, P)) % P

Expected(vector, t) ==
    LET e1 == PyPow(vector[1], 1, P)
        e2 == (e1 * PyPow(vector[2], t, P)) % P
    IN  (e2 * PyPow(vector[3], PyPow(t, 2, Q), P)) % P

\* verify_attestation: "true", "false", or the exception that leaves it
verify_attestation(cap, t, prf) ==
    IF cap.anchor # DeriveAnchor(cap.vector) THEN "false"
    ELSE IF ComputeFingerprintRaises(cap.vector) THEN "OverflowError"
    ELSE IF cap.fingerprint # ComputeFingerprint(cap.vector, cap.context) THEN "false"
    ELSE
      LET challenge_mod == t % Q
          expected == Expected(cap.vector, challenge_mod)
      IN  IF PyPow(G, prf.response, P) # prf.orbital THEN "false"
          ELSE IF prf.orbital # expected THEN "false"
          ELSE
            LET expected_parity == ParityDigest(challenge_mod, prf.orbital, cap.context)
            IN  IF CompareDigestRaises(prf.parity, expected_parity) THEN "TypeError"
                ELSE IF CompareDigest(prf.parity, expected_parity) THEN "true"
                ELSE "false"

----------------------------------------------------------------------------
(* The inputs of the attestation model *)

RECURSIVE SeqsUpTo(_, _)
SeqsUpTo(S, n) ==
    IF n <= 0 THEN {<<>>}
    ELSE SeqsUpTo(S, n - 1) \cup {Append(s, x) : s \in SeqsUpTo(S, n - 1), x \in S}

Essences == SeqsUpTo({97}, MaxEssenceLen) \ {<<>>}

Contexts == SeqsUpTo({97}, MaxContextLen)

\* contexts a tampered capsule can carry, one of them not ASCII
TamperContexts == Contexts \cup {<<233>>}

\* the 32-byte blocks of the SHAKE-256 stream, one of them not below Q
Blocks == 0..Q

\* the blocks drawn when the essence is hashed with a second context
OtherBlocks == {1, Q - 1, Q}

\* challenges a caller can pass: negative, zero, beyond Q
Challenges == (-1)..MaxChallenge

\* integers a serialized or constructed capsule can carry
Components == (-(P - 1))..MaxComponent

NonAscii == [ascii |-> FALSE, hex |-> <<233>>]

NoCapsule ==
    [vector |-> <<0, 0, 0>>, context |-> <<>>, anchor |-> 0, fingerprint |-> Blake2b(<<>>)]

NoProof == [response |-> 0, orbital |-> 0, parity |-> Blake2b(<<>>)]

----------------------------------------------------------------------------
(* The attestation attempt: richens-mint, then richens-login or any caller *)

RichInit ==
    /\ rpc = "start"
    /\ essence = <<>>
    /\ context = <<>>
    /\ shake = <<>>
    /\ capsule = NoCapsule
    /\ challenge = 0
    /\ proof = NoProof
    /\ vcapsule = NoCapsule
    /\ vchallenge = 0
    /\ vproof = NoProof
    /\ tamper = "none"
    /\ loaded = "none"
    /\ result = "none"

ReuseInit == history = <<>> /\ reminted = NoCapsule

\* fingerprints and parities other than the honest ones
OtherDigests(cap) ==
    {NonAscii, Blake2b(<<>>)} \cup {ComputeFingerprint(cap.vector, c) : c \in TamperContexts}

Parities(prf, t, c) ==
    {NonAscii, prf.parity, ParityDigest((t + 1) % Q, prf.orbital, c)}

\* components a forged capsule can carry in place of x
ForgedComponents(x) == {-x, P - x, (x * G) % P}

\* responses and orbitals a forged proof can carry in place of the honest ones
ForgedResponses(prf) ==
    {prf.response - Q, prf.response, prf.response + Q, (prf.response + 1) % Q}

ForgedOrbitals(prf, r) == {prf.orbital, PyPow(G, r, P)}

\* mint_capsule(e, context = c), SHAKE-256 hashing e + c for the first time
Mint ==
    /\ rpc = "start"
    /\ \E e \in Essences, c \in Contexts, blocks \in Blocks \X Blocks \X Blocks :
          /\ essence' = e
          /\ context' = c
          /\ shake' = [m \in {e \o Utf8(c)} |-> blocks]
          /\ capsule' = mint_capsule(e, c)'
    /\ rpc' = "minted"
    /\ UNCHANGED <<challenge, proof, vcapsule, vchallenge, vproof, tamper, loaded, result>>
    /\ UNCHANGED <<issueVars, schVars, reuseVars, storeVars, srvVars>>

\* the challenge comes from issue_challenge(bits = b)
IssueChallenge ==
    /\ rpc = "minted"
    /\ \E b \in 0..MaxBits : \E t \in IssueChallengeValues(b) : challenge' = t
    /\ rpc' = "challenged"
    /\ UNCHANGED <<essence, context, shake, capsule, proof, vcapsule, vchallenge, vproof,
                   tamper, loaded, result>>
    /\ UNCHANGED <<issueVars, schVars, reuseVars, storeVars, srvVars>>

\* the challenge is supplied by the caller
SupplyChallenge ==
    /\ rpc = "minted"
    /\ \E t \in Challenges : challenge' = t
    /\ rpc' = "challenged"
    /\ UNCHANGED <<essence, context, shake, capsule, proof, vcapsule, vchallenge, vproof,
                   tamper, loaded, result>>
    /\ UNCHANGED <<issueVars, schVars, reuseVars, storeVars, srvVars>>

Respond ==
    /\ rpc = "challenged"
    /\ proof' = respond_to_challenge(essence, challenge, context)
    /\ rpc' = "responded"
    /\ UNCHANGED <<essence, context, shake, capsule, challenge, vcapsule, vchallenge,
                   vproof, tamper, loaded, result>>
    /\ UNCHANGED <<issueVars, schVars, reuseVars, storeVars, srvVars>>

\* one call verify_attestation(cap, t, prf); kind names what the caller changed
VerifyWith(cap, t, prf, kind) ==
    /\ rpc = "responded"
    /\ vcapsule' = cap
    /\ vchallenge' = t
    /\ vproof' = prf
    /\ tamper' = kind
    /\ result' = verify_attestation(cap, t, prf)
    /\ rpc' = "verified"
    /\ UNCHANGED <<essence, context, shake, capsule, challenge, proof, loaded>>
    /\ UNCHANGED <<issueVars, schVars, reuseVars, storeVars, srvVars>>

\* the honest attempt: the minted capsule, the challenge answered, its proof
Verify ==
    /\ rpc = "responded"
    /\ VerifyWith(capsule, challenge, proof, "none")

\* the proof is checked against another challenge
VerifyOtherChallenge ==
    /\ rpc = "responded"
    /\ \E t \in Challenges :
          /\ t # challenge
          /\ VerifyWith(capsule, t, proof, "challenge")

\* a capsule built from the minted one with another context, checked with any
\* challenge and with the honest proof or one whose parity names that context
VerifyTamperedContext ==
    /\ rpc = "responded"
    /\ \E c \in TamperContexts, t \in Challenges :
          \E prf \in {proof, [proof EXCEPT !.parity = ParityDigest(t % Q, proof.orbital, c)]} :
             /\ c # capsule.context
             /\ VerifyWith([capsule EXCEPT !.context = c], t, prf, "context")

\* a capsule built from the minted one with another vector component, its
\* anchor and fingerprint kept or recomputed
VerifyForgedVector ==
    /\ rpc = "responded"
    /\ \E i \in 1..3, recompute \in BOOLEAN :
          \E v \in ForgedComponents(capsule.vector[i]) :
             LET vector == [capsule.vector EXCEPT ![i] = v]
             IN  /\ v # capsule.vector[i]
                 /\ recompute => ~ComputeFingerprintRaises(vector)
                 /\ VerifyWith(IF recompute
                               THEN [capsule EXCEPT
                                        !.vector = vector,
                                        !.anchor = DeriveAnchor(vector),
                                        !.fingerprint =
                                            ComputeFingerprint(vector, capsule.context)]
                               ELSE [capsule EXCEPT !.vector = vector],
                               challenge, proof, "vector")

\* a capsule built from the minted one with another anchor or fingerprint
VerifyForgedAnchor ==
    /\ rpc = "responded"
    /\ \E n \in {0, (capsule.anchor + 1) % P} :
          /\ n # capsule.anchor
          /\ VerifyWith([capsule EXCEPT !.anchor = n], challenge, proof, "anchor")

VerifyForgedFingerprint ==
    /\ rpc = "responded"
    /\ \E f \in OtherDigests(capsule) :
          /\ f # capsule.fingerprint
          /\ VerifyWith([capsule EXCEPT !.fingerprint = f], challenge, proof, "fingerprint")

\* a proof that respond_to_challenge did not return
VerifyForgedProof ==
    /\ rpc = "responded"
    /\ \E r \in ForgedResponses(proof), par \in Parities(proof, challenge, context) :
          \E o \in ForgedOrbitals(proof, r) :
             LET prf == [response |-> r, orbital |-> o, parity |-> par]
             IN  /\ prf # proof
                 /\ VerifyWith(capsule, challenge, prf, "proof")

\* RichensCapsule.from_dict on serialized capsule data.  A load that succeeds
\* yields a capsule equal in every field to a consistent one, and the attempt
\* goes on as from "minted"; a load that raises ends the attempt.
Load(data, kind) ==
    /\ rpc = "minted"
    /\ LET outcome == FromDict(data)
       IN  /\ loaded' = outcome.status
           /\ vcapsule' = IF outcome.status = "ok" THEN outcome.capsule ELSE vcapsule
           /\ rpc' = IF outcome.status = "ok" THEN "loaded" ELSE "rejected"
    /\ tamper' = kind
    /\ UNCHANGED <<essence, context, shake, capsule, challenge, proof, vchallenge,
                   vproof, result>>
    /\ UNCHANGED <<issueVars, schVars, reuseVars, storeVars, srvVars>>

LoadCapsule ==
    /\ rpc = "minted"
    /\ Load(ToDict(capsule), "none")

LoadTamperedVector ==
    /\ rpc = "minted"
    /\ \E i \in 1..3, v \in Components :
          /\ v # capsule.vector[i]
          /\ Load([ToDict(capsule) EXCEPT !.vector[i] = Hex(v)], "vector")

LoadMalformedVector ==
    /\ rpc = "minted"
    /\ \E i \in 1..3 : Load([ToDict(capsule) EXCEPT !.vector[i] = <<"0", "x">>], "malformed")

LoadTamperedContext ==
    /\ rpc = "minted"
    /\ \E c \in TamperContexts :
          /\ c # capsule.context
          /\ Load([ToDict(capsule) EXCEPT !.context = c], "context")

LoadTamperedAnchor ==
    /\ rpc = "minted"
    /\ \E n \in 0..(P - 1) :
          /\ n # capsule.anchor
          /\ Load([ToDict(capsule) EXCEPT !.anchor = Hex(n)], "anchor")

LoadTamperedFingerprint ==
    /\ rpc = "minted"
    /\ \E f \in OtherDigests(capsule) :
          /\ f # capsule.fingerprint
          /\ Load([ToDict(capsule) EXCEPT !.fingerprint = f], "fingerprint")

\* RichensProof.from_dict on the serialized proof
LoadProof ==
    /\ rpc = "responded"
    /\ LET outcome == ProofFromDict(ProofToDict(proof))
       IN  /\ loaded' = outcome.status
           /\ vproof' = IF outcome.status = "ok" THEN outcome.proof ELSE vproof
    /\ tamper' = "none"
    /\ rpc' = "proofloaded"
    /\ UNCHANGED <<essence, context, shake, capsule, challenge, proof, vcapsule,
                   vchallenge, result>>
    /\ UNCHANGED <<issueVars, schVars, reuseVars, storeVars, srvVars>>

\* SHAKE-256 hashes the essence with another context c for the first time
HashOtherContext ==
    /\ rpc = "responded"
    /\ \E c \in Contexts, blocks \in OtherBlocks \X OtherBlocks \X OtherBlocks :
          /\ c # context
          /\ shake' = ((essence \o Utf8(c)) :> blocks) @@ shake
    /\ rpc' = "hashed"
    /\ UNCHANGED <<essence, context, capsule, challenge, proof, vcapsule, vchallenge,
                   vproof, tamper, loaded, result>>
    /\ UNCHANGED <<issueVars, schVars, reuseVars, storeVars, srvVars>>

\* the proof is checked against mint_capsule(essence, context = c), the
\* capsule of the same essence and the other context
VerifyOtherContext ==
    /\ rpc = "hashed"
    /\ \E c \in Contexts :
          /\ c # context
          /\ (essence \o Utf8(c)) \in DOMAIN shake
          /\ vcapsule' = mint_capsule(essence, c)
          /\ result' = verify_attestation(mint_capsule(essence, c), challenge, proof)
    /\ vchallenge' = challenge
    /\ vproof' = proof
    /\ tamper' = "othercontext"
    /\ rpc' = "verified"
    /\ UNCHANGED <<essence, context, shake, capsule, challenge, proof, loaded>>
    /\ UNCHANGED <<issueVars, schVars, reuseVars, storeVars, srvVars>>

\* the attempt is over; the capsule is used for another one
NextAttempt ==
    /\ rpc = "verified"
    /\ Len(history) < MaxAttempts
    /\ history' = Append(history, result)
    /\ rpc' = "minted"
    /\ challenge' = 0
    /\ proof' = NoProof
    /\ vcapsule' = NoCapsule
    /\ vchallenge' = 0
    /\ vproof' = NoProof
    /\ tamper' = "none"
    /\ result' = "none"
    /\ UNCHANGED <<essence, context, shake, capsule, loaded, reminted>>
    /\ UNCHANGED <<issueVars, schVars, storeVars, srvVars>>

\* mint_capsule(essence, context = context) is called a second time
MintAgain ==
    /\ rpc = "minted"
    /\ reminted = NoCapsule
    /\ reminted' = mint_capsule(essence, context)
    /\ UNCHANGED <<richVars, history>>
    /\ UNCHANGED <<issueVars, schVars, storeVars, srvVars>>

----------------------------------------------------------------------------
(* issue_challenge, one step per draw and per test of the loop *)

IssueIdle == ipc = "idle" /\ bits = 0 /\ candidate = 0

\* IssueAccepts with the lower comparison not strict
IssueAcceptsZero(c) == 0 <= c /\ c < Q

\* the condition of the loop's return
IssueAccepts(c) == 0 < c /\ c < Q

\* issue_challenge(bits = b) is called
IssueCall(b) ==
    /\ ipc = "idle"
    /\ bits' = b
    /\ ipc' = "sample"
    /\ UNCHANGED candidate
    /\ UNCHANGED <<richVars, schVars, reuseVars, storeVars, srvVars>>

\* candidate = secrets.randbits(size) draws v
IssueDraw(v) ==
    /\ ipc = "sample"
    /\ IssueChallengeSize(bits) >= 0
    /\ v \in 0..(Pow2(IssueChallengeSize(bits)) - 1)
    /\ candidate' = v
    /\ ipc' = "test"
    /\ UNCHANGED bits
    /\ UNCHANGED <<richVars, schVars, reuseVars, storeVars, srvVars>>

\* secrets.randbits raises ValueError on a negative size
IssueDrawRaises ==
    /\ ipc = "sample"
    /\ IssueChallengeSize(bits) < 0
    /\ ipc' = "raised"
    /\ UNCHANGED <<bits, candidate>>
    /\ UNCHANGED <<richVars, schVars, reuseVars, storeVars, srvVars>>

IssueTest ==
    /\ ipc = "test"
    /\ ipc' = IF IssueAccepts(candidate) THEN "returned" ELSE "sample"
    /\ UNCHANGED <<bits, candidate>>
    /\ UNCHANGED <<richVars, schVars, reuseVars, storeVars, srvVars>>

----------------------------------------------------------------------------
(* crypto.py *)

SchnorrProverInitRaises(s) == ~(0 < s /\ s < Q)

\* SchnorrVerifierInitRaises with the upper comparison not strict
SchnorrVerifierInitRaisesAboveP(public_key) == ~(0 < public_key /\ public_key <= P)

SchnorrVerifierInitRaises(public_key) == ~(0 < public_key /\ public_key < P)

\* random_nonce: secrets.randbelow(Q - 1) + 1
Nonces == 1..(Q - 1)

\* random_challenge: secrets.randbits(CHALLENGE_BITS)
RandomChallenges == 0..(Pow2(CHALLENGE_BITS) - 1)

Commit(nonce) == [commitment |-> PyPow(G, nonce, P), nonce |-> nonce]

ProveRaises(c) == ~(0 <= c /\ c < Pow2(CHALLENGE_BITS))

\* Prove with the sum taken before the product
ProveSumFirst(s, c, commitment) ==
    [challenge |-> c, response |-> ((commitment.nonce + c) * s) % Q]

Prove(s, c, commitment) ==
    [challenge |-> c, response |-> (commitment.nonce + c * s) % Q]

SchnorrVerify(public_key, commitment_value, prf) ==
    LET left == PyPow(G, prf.response, P)
        right == (commitment_value * PyPow(public_key, prf.challenge, P)) % P
    IN  left = right

DerivePublicKeyRaises(s) == ~(0 < s /\ s < Q)

\* derive_public_key multiplying where it raises to the power
derive_public_key_product(s) == (G * s) % P

derive_public_key(s) == PyPow(G, s, P)

\* run_single_round with the nonce and the challenge its two draws return
run_single_round(s, public_key, nonce, c) ==
    IF SchnorrProverInitRaises(s) \/ SchnorrVerifierInitRaises(public_key) \/ ProveRaises(c)
    THEN [raised |-> TRUE, ok |-> FALSE, proof |-> [challenge |-> c, response |-> 0],
          commitment |-> 0]
    ELSE LET commitment == Commit(nonce)
             prf == Prove(s, c, commitment)
         IN  [raised |-> FALSE,
              ok |-> SchnorrVerify(public_key, commitment.commitment, prf),
              proof |-> prf,
              commitment |-> commitment.commitment]

(* auth.py *)

\* SerializeRound with the challenge and the response exchanged
SerializeRoundSwapped(prf, commitment) ==
    [commitment |-> Hex(commitment), challenge |-> Hex(prf.response),
     response |-> Hex(prf.challenge)]

SerializeRound(prf, commitment) ==
    [commitment |-> Hex(commitment), challenge |-> Hex(prf.challenge),
     response |-> Hex(prf.response)]

\* Aggregate satisfied by one verified round
AggregateAny(success_rounds) == success_rounds >= 1

\* the success flag authenticate returns
Aggregate(success_rounds) == success_rounds = ROUNDS

SchIdle ==
    /\ spc = "idle" /\ regSecret = 0 /\ publicKey = 0 /\ secret = 0
    /\ transcripts = <<>> /\ successRounds = 0 /\ success = FALSE
    /\ built = [kind |-> "none", raised |-> FALSE, given |-> 0, held |-> 0]

\* a credential is registered for the secret x
Register(x) ==
    /\ spc = "idle"
    /\ ~DerivePublicKeyRaises(x)
    /\ regSecret' = x
    /\ publicKey' = derive_public_key(x)
    /\ spc' = "registered"
    /\ UNCHANGED <<secret, transcripts, successRounds, success, built>>
    /\ UNCHANGED <<richVars, issueVars, reuseVars, storeVars, srvVars>>

\* authenticate(store, identifier, secret = s) finds the record
Authenticate(s) ==
    /\ spc = "registered"
    /\ secret' = s
    /\ transcripts' = <<>>
    /\ successRounds' = 0
    /\ spc' = "rounds"
    /\ UNCHANGED <<regSecret, publicKey, success, built>>
    /\ UNCHANGED <<richVars, issueVars, reuseVars, storeVars, srvVars>>

\* one iteration of authenticate's loop
Round(nonce, c) ==
    /\ spc = "rounds"
    /\ Len(transcripts) < ROUNDS
    /\ LET round == run_single_round(secret, publicKey, nonce, c)
       IN  IF round.raised
           THEN /\ spc' = "raised"
                /\ UNCHANGED <<transcripts, successRounds>>
           ELSE /\ transcripts' = Append(transcripts, SerializeRound(round.proof, round.commitment))
                /\ successRounds' = IF round.ok THEN successRounds + 1 ELSE successRounds
                /\ spc' = spc
    /\ UNCHANGED <<regSecret, publicKey, secret, success, built>>
    /\ UNCHANGED <<richVars, issueVars, reuseVars, storeVars, srvVars>>

\* authenticate returns
Return ==
    /\ spc = "rounds"
    /\ Len(transcripts) = ROUNDS
    /\ success' = Aggregate(successRounds)
    /\ spc' = "done"
    /\ UNCHANGED <<regSecret, publicKey, secret, transcripts, successRounds, built>>
    /\ UNCHANGED <<richVars, issueVars, reuseVars, storeVars, srvVars>>

\* SchnorrProver(s) and SchnorrVerifier(public_key) on their own
ConstructProver(s) ==
    /\ spc = "idle"
    /\ built' = [kind |-> "prover", raised |-> SchnorrProverInitRaises(s), given |-> s,
                 held |-> IF SchnorrProverInitRaises(s) THEN 0 ELSE s]
    /\ spc' = "constructed"
    /\ UNCHANGED <<regSecret, publicKey, secret, transcripts, successRounds, success>>
    /\ UNCHANGED <<richVars, issueVars, reuseVars, storeVars, srvVars>>

ConstructVerifier(public_key) ==
    /\ spc = "idle"
    /\ built' = [kind |-> "verifier", raised |-> SchnorrVerifierInitRaises(public_key),
                 given |-> public_key,
                 held |-> IF SchnorrVerifierInitRaises(public_key) THEN 0 ELSE public_key]
    /\ spc' = "constructed"
    /\ UNCHANGED <<regSecret, publicKey, secret, transcripts, successRounds, success>>
    /\ UNCHANGED <<richVars, issueVars, reuseVars, storeVars, srvVars>>

\* derive_public_key(s) on its own, a credential being registered
DerivePublicKey(s) ==
    /\ spc = "registered"
    /\ built' = [kind |-> "derive", raised |-> DerivePublicKeyRaises(s), given |-> s,
                 held |-> IF DerivePublicKeyRaises(s) THEN 0 ELSE derive_public_key(s)]
    /\ spc' = "derived"
    /\ UNCHANGED <<regSecret, publicKey, secret, transcripts, successRounds, success>>
    /\ UNCHANGED <<richVars, issueVars, reuseVars, storeVars, srvVars>>

----------------------------------------------------------------------------
(* store.py *)

\* Optional[...] values: None, or a value that is present
None == [some |-> FALSE, value |-> ""]

NoSecret == [some |-> FALSE, value |-> 0]

Some(v) == [some |-> TRUE, value |-> v]

\* truth of an Optional[str] and of an Optional[int] under `or`
TruthyStr(a) == a.some /\ a.value # ""

TruthyInt(s) == s.some /\ s.value # 0

\* hashlib.sha256(message).hexdigest(): collision free
Sha256(message) == [sha256 |-> message]

CalculateCredentialId(public_key) ==
    Sha256(ToBytes(public_key, Max(1, (BitLength(public_key) + 7) \div 8)))

\* UserRecord.to_dict: the alias key is left out when the alias is None
UserRecordToDict(record) ==
    [credential_id |-> record.credential_id,
     public_key |-> Hex(record.public_key),
     alias |-> record.alias]

\* UserRecord.from_dict on a raw user that carries its credential id
UserRecordFromDict(raw) ==
    [credential_id |-> raw.credential_id,
     public_key |-> IntFromHex(raw.public_key),
     alias |-> IF TruthyStr(raw.alias) THEN raw.alias ELSE None]

\* raw_user.get("alias") or raw_user.get("username")
RawAlias(raw) == IF TruthyStr(raw.alias) THEN raw.alias ELSE None

\* the test of add_user's first raise
AliasExists(users, username) ==
    username.some /\ \E i \in 1..Len(users) : RawAlias(users[i]) = username

\* the test of add_user's second raise
CredentialRegistered(users, credential_id) ==
    \E i \in 1..Len(users) : users[i].credential_id = credential_id

\* get_by_credential: the record, or None
GetByCredential(users, credential_id) ==
    IF \E i \in 1..Len(users) : users[i].credential_id = credential_id
    THEN Some(UserRecordFromDict(
             users[CHOOSE i \in 1..Len(users) :
                      /\ users[i].credential_id = credential_id
                      /\ \A j \in 1..(i - 1) : users[j].credential_id # credential_id]))
    ELSE [some |-> FALSE, value |-> <<>>]

NoRecord == [credential_id |-> Sha256(<<>>), public_key |-> 0, alias |-> None]

NoReturn == [status |-> "none", record |-> NoRecord, secret |-> 0]

\* add_user from its alias test to its return, on the users list it loaded:
\* generated is the value generate_secret() returns when it is called
AddUserOn(users, username, secret_arg, generated) ==
    IF AliasExists(users, username)
    THEN [status |-> "ValueError: Alias already exists", record |-> NoRecord,
          secret |-> 0, users |-> users]
    ELSE
      LET secret_value == IF TruthyInt(secret_arg) THEN secret_arg.value ELSE generated
      IN  IF DerivePublicKeyRaises(secret_value)
          THEN [status |-> "ValueError: Secret must lie in the multiplicative subgroup",
                record |-> NoRecord, secret |-> 0, users |-> users]
          ELSE
            LET public_key == derive_public_key(secret_value)
                credential_id == CalculateCredentialId(public_key)
                record == [credential_id |-> credential_id, public_key |-> public_key,
                           alias |-> username]
            IN  IF CredentialRegistered(users, credential_id)
                THEN [status |-> "ValueError: Credential already registered",
                      record |-> NoRecord, secret |-> 0, users |-> users]
                ELSE [status |-> "ok", record |-> record, secret |-> secret_value,
                      users |-> Append(users, UserRecordToDict(record))]

\* generate_secret: secrets.randbelow(Q - 1) + 1
GeneratedSecrets == 1..(Q - 1)

\* what `secret or generate_secret()` draws: nothing (0) when the secret counts
GeneratedFor(secret_arg) == IF TruthyInt(secret_arg) THEN {0} ELSE GeneratedSecrets

\* the callers of add_user, and the arguments they pass
Procs == 1..NumProcs

Usernames == {None, Some(""), Some("a")}

SecretArgs == {NoSecret, Some(0), Some(1), Some(2), Some(Q)}

StoreInit ==
    /\ file = <<>>
    /\ apc = [p \in Procs |-> "idle"]
    /\ call = [p \in Procs |-> [username |-> None, secret |-> NoSecret]]
    /\ payload = [p \in Procs |-> <<>>]
    /\ ret = [p \in Procs |-> NoReturn]
    /\ calls = 0
    /\ overlap = FALSE

\* add_user(username, secret) is called and loads the file: payload = self._load()
AddUserLoad(p) ==
    /\ apc[p] \in {"idle", "returned", "raised"}
    /\ calls < MaxCalls
    /\ \E username \in Usernames, secret_arg \in SecretArgs :
          call' = [call EXCEPT ![p] = [username |-> username, secret |-> secret_arg]]
    /\ payload' = [payload EXCEPT ![p] = file]
    /\ ret' = [ret EXCEPT ![p] = NoReturn]
    /\ apc' = [apc EXCEPT ![p] = "loaded"]
    /\ calls' = calls + 1
    /\ overlap' = (overlap \/ \E q \in Procs : q # p /\ apc[q] \in {"loaded", "checked"})
    /\ UNCHANGED file
    /\ UNCHANGED <<richVars, issueVars, schVars, reuseVars, srvVars>>

\* the alias test, the secret, the public key and the credential test, all on
\* the loaded payload; a raise leaves add_user here
AddUserCheck(p) ==
    /\ apc[p] = "loaded"
    /\ \E generated \in GeneratedFor(call[p].secret) :
          LET out == AddUserOn(payload[p], call[p].username, call[p].secret, generated)
          IN  /\ ret' = [ret EXCEPT ![p] = [status |-> out.status, record |-> out.record,
                                            secret |-> out.secret]]
              /\ payload' = [payload EXCEPT ![p] = out.users]
              /\ apc' = [apc EXCEPT ![p] = IF out.status = "ok" THEN "checked" ELSE "raised"]
    /\ UNCHANGED <<file, call, calls, overlap>>
    /\ UNCHANGED <<richVars, issueVars, schVars, reuseVars, srvVars>>

\* self._save(payload) and the return
AddUserSave(p) ==
    /\ apc[p] = "checked"
    /\ file' = payload[p]
    /\ apc' = [apc EXCEPT ![p] = "returned"]
    /\ UNCHANGED <<call, payload, ret, calls, overlap>>
    /\ UNCHANGED <<richVars, issueVars, schVars, reuseVars, srvVars>>

\* a caller whose add_user starts only when no other call is under way
AddUserLoadAlone(p) ==
    /\ \A q \in Procs : apc[q] \in {"idle", "returned", "raised"}
    /\ AddUserLoad(p)

\* a caller that calls add_user once
AddUserLoadOnce(p) ==
    /\ apc[p] = "idle"
    /\ AddUserLoad(p)

----------------------------------------------------------------------------
(* server.py *)

\* an optional str of a request body, given by its characters
NoText == [some |-> FALSE, value |-> <<>>]

TruthyText(a) == a.some /\ a.value # <<>>

\* SessionsCreate storing the commitment 1 whatever the client sent
SessionsCreateUnitCommitment(s, session_id, state) ==
    [k \in DOMAIN s \cup {session_id} |->
        IF k = session_id THEN [state EXCEPT !.commitment = 1] ELSE s[k]]

\* _SessionManager.create: sessions[session_id] = _SessionState(...)
SessionsCreate(s, session_id, state) ==
    [k \in DOMAIN s \cup {session_id} |-> IF k = session_id THEN state ELSE s[k]]

\* SessionsPop leaving the session in the map
SessionsKeep(s, session_id) == s

\* _SessionManager.pop: the map without the session
SessionsPop(s, session_id) == [k \in DOMAIN s \ {session_id} |-> s[k]]

\* secrets.token_urlsafe(16): a session id no earlier session carries
TokenUrlsafe(n) == n + 1

Answer(c, status, detail) ==
    [call |-> c, status |-> status, detail |-> detail, success |-> FALSE,
     session |-> 0, challenge |-> NoSecret, response |-> 0, again |-> FALSE]

\* what the clients send
RegisterAliases == {None}

RegisterSecrets == {Some(Hex(1)), Some(Hex(2)), Some(<<"z">>)}

StartCredentials ==
    {CalculateCredentialId(derive_public_key(x)) : x \in 1..3}

StartCommitments == {Hex(0), Hex(PyPow(G, 1, P)), <<"z">>}

\* the session ids a client can send: those handed out, and one that is not
FinishSessions(n) == 0..n

FinishResponses == {Hex(r) : r \in (-1)..Q} \cup {<<"z">>}

ServerInit ==
    /\ sessions = <<>>
    /\ created = 0
    /\ started = <<>>
    /\ finished = {}
    /\ checked = <<>>
    /\ reply = Answer("none", 0, "")

\* POST /register
ServerRegister ==
    /\ \E alias \in RegisterAliases, secret_text \in RegisterSecrets :
          IF TruthyText(secret_text) /\ IntFromHexRaises(secret_text.value)
          THEN /\ reply' = Answer("register", 400, "Secret must be hex encoded")
               /\ UNCHANGED file
          ELSE LET secret_value == IF TruthyText(secret_text)
                                   THEN Some(IntFromHex(secret_text.value))
                                   ELSE NoSecret
               IN  \E generated \in GeneratedFor(secret_value) :
                      LET out == AddUserOn(file, alias, secret_value, generated)
                      IN  /\ file' = out.users
                          /\ reply' = IF out.status = "ok"
                                      THEN Answer("register", 200, "")
                                      ELSE Answer("register", 500, out.status)
    /\ UNCHANGED <<sessions, created, started, finished, checked>>
    /\ UNCHANGED <<apc, call, payload, ret, calls, overlap>>
    /\ UNCHANGED <<richVars, issueVars, schVars, reuseVars>>

\* POST /login/start
LoginStart ==
    /\ \E credential_id \in StartCredentials, commitment_text \in StartCommitments :
          LET record == GetByCredential(file, credential_id)
              fails(status, detail) ==
                  /\ reply' = Answer("start", status, detail)
                  /\ UNCHANGED <<sessions, created, started>>
          IN  IF ~record.some THEN fails(404, "Unknown credential")
              ELSE IF IntFromHexRaises(commitment_text)
              THEN fails(400, "Commitment must be hex encoded")
              ELSE IF IntFromHex(commitment_text) <= 0
              THEN fails(400, "Invalid commitment")
              ELSE IF SchnorrVerifierInitRaises(record.value.public_key)
              THEN fails(500, "ValueError")
              ELSE /\ created < MaxSessions
                   /\ \E c \in RandomChallenges :
                         /\ sessions' = SessionsCreate(sessions, TokenUrlsafe(created),
                                          [credential_id |-> record.value.credential_id,
                                           commitment |-> IntFromHex(commitment_text),
                                           challenge |-> c])
                         /\ started' = (TokenUrlsafe(created) :>
                                           [credential_id |-> credential_id,
                                            commitment_text |-> commitment_text,
                                            challenge |-> c]) @@ started
                         /\ reply' = [Answer("start", 200, "") EXCEPT
                                         !.session = TokenUrlsafe(created),
                                         !.challenge = Some(c)]
                   /\ created' = created + 1
    /\ UNCHANGED <<finished, checked>>
    /\ UNCHANGED <<file, apc, call, payload, ret, calls, overlap>>
    /\ UNCHANGED <<richVars, issueVars, schVars, reuseVars>>

\* POST /login/finish
LoginFinish ==
    /\ \E session \in FinishSessions(created), response_text \in FinishResponses :
          LET answer(status, detail) ==
                  [Answer("finish", status, detail) EXCEPT
                      !.session = session, !.again = (session \in finished)]
          IN  /\ finished' = finished \cup {session}
              /\ started' = [k \in DOMAIN started \cap (DOMAIN sessions \cup {session})
                                |-> started[k]]
              /\ IF session \notin DOMAIN sessions
                 THEN /\ reply' = answer(404, "Unknown session")
                      /\ UNCHANGED <<sessions, checked>>
                 ELSE
                   LET state == sessions[session]
                       record == GetByCredential(file, state.credential_id)
                   IN  /\ sessions' = SessionsPop(sessions, session)
                       /\ IF ~record.some
                          THEN /\ reply' = answer(404, "Unknown credential")
                               /\ UNCHANGED checked
                          ELSE IF IntFromHexRaises(response_text)
                          THEN /\ reply' = answer(400, "Response must be hex encoded")
                               /\ UNCHANGED checked
                          ELSE IF SchnorrVerifierInitRaises(record.value.public_key)
                          THEN /\ reply' = answer(500, "ValueError")
                               /\ UNCHANGED checked
                          ELSE /\ checked' = Append(checked, session)
                               /\ reply' = [answer(200, "") EXCEPT
                                     !.response = IntFromHex(response_text),
                                     !.success =
                                        SchnorrVerify(record.value.public_key,
                                                      state.commitment,
                                                      [challenge |-> state.challenge,
                                                       response |->
                                                          IntFromHex(response_text)])]
    /\ UNCHANGED created
    /\ UNCHANGED <<file, apc, call, payload, ret, calls, overlap>>
    /\ UNCHANGED <<richVars, issueVars, schVars, reuseVars>>

----------------------------------------------------------------------------
(* Specifications *)

Init == RichInit /\ IssueIdle /\ SchIdle /\ ReuseInit /\ StoreInit /\ ServerInit

\* the attestation attempts
Next ==
    \/ Mint
    \/ IssueChallenge
    \/ SupplyChallenge
    \/ Respond
    \/ Verify
    \/ VerifyOtherChallenge
    \/ VerifyTamperedContext
    \/ VerifyForgedVector
    \/ VerifyForgedAnchor
    \/ VerifyForgedFingerprint
    \/ VerifyForgedProof
    \/ LoadCapsule
    \/ LoadTamperedVector
    \/ LoadMalformedVector
    \/ LoadTamperedContext
    \/ LoadTamperedAnchor
    \/ LoadTamperedFingerprint
    \/ LoadProof

Spec == Init /\ [][Next]_vars

\* issue_challenge; the random source is fair: a value that can be drawn again
\* and again is drawn, and the loop goes on running
NextIssue ==
    \/ \E b \in (-1)..MaxBits : IssueCall(b)
    \/ \E v \in 0..(Pow2(BitLength(Q)) - 1) : IssueDraw(v)
    \/ IssueDrawRaises
    \/ IssueTest

FairIssue ==
    /\ WF_vars(IssueTest)
    /\ \A v \in 0..(Pow2(BitLength(Q)) - 1) : SF_vars(IssueDraw(v))

SpecIssue == Init /\ [][NextIssue]_vars /\ FairIssue

\* Schnorr registration, authentication and construction
NextSchnorr ==
    \/ \E x \in 1..(Q - 1) : Register(x)
    \/ \E s \in 0..Q : Authenticate(s)
    \/ \E nonce \in Nonces, c \in RandomChallenges : Round(nonce, c)
    \/ Return
    \/ \E s \in (-1)..(Q + 1) : ConstructProver(s)
    \/ \E public_key \in (-1)..(P + 1) : ConstructVerifier(public_key)
    \/ \E s \in 0..Q : DerivePublicKey(s)

SpecSchnorr == Init /\ [][NextSchnorr]_vars

\* a proof checked against the capsule of another context
NextContext ==
    \/ Mint
    \/ IssueChallenge
    \/ SupplyChallenge
    \/ Respond
    \/ HashOtherContext
    \/ VerifyOtherContext

SpecContext == Init /\ [][NextContext]_vars

\* attempt after attempt against one capsule
NextReuse ==
    \/ Mint
    \/ IssueChallenge
    \/ Respond
    \/ Verify
    \/ VerifyOtherChallenge
    \/ NextAttempt
    \/ MintAgain

SpecReuse == Init /\ [][NextReuse]_vars

\* callers of add_user on one store file, their steps interleaved
NextStore ==
    \/ \E p \in Procs : AddUserLoadOnce(p)
    \/ \E p \in Procs : AddUserCheck(p)
    \/ \E p \in Procs : AddUserSave(p)

SpecStore == Init /\ [][NextStore]_vars

\* add_user calls one after the other
NextStoreSeq ==
    \/ \E p \in Procs : AddUserLoadAlone(p)
    \/ \E p \in Procs : AddUserCheck(p)
    \/ \E p \in Procs : AddUserSave(p)

SpecStoreSeq == Init /\ [][NextStoreSeq]_vars

\* the login service; its handlers run one at a time on the event loop, and
\* login_start requests go on arriving and being answered
NextServer ==
    \/ ServerRegister
    \/ LoginStart
    \/ LoginFinish

SpecServer == Init /\ [][NextServer]_vars /\ WF_vars(LoginStart)

----------------------------------------------------------------------------
(* Properties *)

\* the values issue_challenge returns for the bit sizes of the model
IssuedChallenges == UNION {IssueChallengeValues(b) : b \in 0..MaxBits}

\* C1: the honest attempt is accepted: for a capsule minted from (E, C) and a
\* challenge t that issue_challenge returns, verifying the capsule, t and
\* respond_to_challenge(E, t, C) returns true.
RoundTripAccepted ==
    (rpc = "verified" /\ tamper = "none" /\ challenge \in IssuedChallenges)
        => result = "true"

RoundTripWitness ==
    /\ rpc = "verified" /\ tamper = "none"
    /\ challenge \in IssuedChallenges /\ challenge > 1
    /\ DeriveCoefficients(essence, context)[3] # 0
    /\ result = "true"

\* C2: a proof produced for challenge A is rejected when it is verified, with
\* the same capsule, against any challenge B different from A.
ChallengeBinding ==
    (rpc = "verified" /\ tamper = "challenge") => result = "false"

\* C3: a capsule that carries the vector, anchor and fingerprint of a minted
\* capsule and another context is rejected, whatever the challenge and the proof.
ContextTamperRejected ==
    (rpc = "verified" /\ tamper = "context") => result = "false"

ContextTamperWitness ==
    /\ rpc = "verified" /\ tamper = "context"
    /\ vchallenge = challenge /\ vproof = proof
    /\ vcapsule.vector = capsule.vector /\ vcapsule.context # capsule.context
    /\ result = "false"

\* C4: from_dict on a serialized capsule with one vector component changed to
\* another value raises an integrity error, and from_dict returns a capsule only
\* when its anchor and fingerprint equal the recomputed ones.
TamperedVectorIntegrityError ==
    /\ (rpc \in {"loaded", "rejected"} /\ tamper = "vector")
          => loaded \in {"ValueError: Capsule anchor mismatch",
                         "ValueError: Capsule fingerprint mismatch"}
    /\ (rpc = "loaded")
          => /\ vcapsule.anchor = DeriveAnchor(vcapsule.vector)
             /\ vcapsule.fingerprint = ComputeFingerprint(vcapsule.vector, vcapsule.context)

\* the challenges of the rounds authenticate has run
RoundChallenges == {IntFromHex(transcripts[i].challenge) : i \in 1..Len(transcripts)}

\* C5: with the registered secret every round verifies, whatever nonce and
\* challenge it draws, and authenticate returns success = true after ROUNDS rounds.
SchnorrCompleteness ==
    (spc \in {"rounds", "done"} /\ secret = regSecret)
        => /\ successRounds = Len(transcripts)
           /\ spc = "done" => (success /\ Len(transcripts) = ROUNDS)

SchnorrCompletenessWitness ==
    /\ spc = "done" /\ secret = regSecret /\ success
    /\ \E t \in RoundChallenges : t > Q

\* C6 as claimed: with a secret in (0, Q) other than the registered one,
\* authenticate returns success = false whatever the rounds draw.
WrongSecretFails ==
    (spc = "done" /\ secret # regSecret) => ~success

\* C6 as amended: with a secret in (0, Q) other than the registered one,
\* authenticate returns success = true exactly when every round drew a challenge
\* that is a multiple of Q (0 among them), and success = false otherwise.
WrongSecretFailsUnlessZero ==
    (spc = "done" /\ secret # regSecret)
        => (success <=> \A t \in RoundChallenges : t % Q = 0)

WrongSecretWitness ==
    /\ spc = "done" /\ secret # regSecret /\ ~success
    /\ \E t \in RoundChallenges : t % Q = 0
    /\ \E t \in RoundChallenges : t % Q # 0

\* C7: verify_attestation returns a boolean for every capsule, challenge and
\* proof, and returns true exactly when the anchor and the fingerprint are the
\* recomputed ones, G^response = orbital, orbital is the vector evaluated at
\* the challenge modulo Q, and the parity is the recomputed digest.
VerifyTotal ==
    rpc = "verified"
        => /\ result \in {"true", "false"}
           /\ result = "true" <=>
                 /\ vcapsule.anchor = DeriveAnchor(vcapsule.vector)
                 /\ vcapsule.fingerprint
                       = ComputeFingerprint(vcapsule.vector, vcapsule.context)
                 /\ PyPow(G, vproof.response, P) = vproof.orbital
                 /\ vproof.orbital
                       = (vcapsule.vector[1]
                          * PyPow(vcapsule.vector[2], vchallenge % Q, P)
                          * PyPow(vcapsule.vector[3], ((vchallenge % Q) * (vchallenge % Q)) % Q, P)) % P
                 /\ vproof.parity
                       = ParityDigest(vchallenge % Q, vproof.orbital, vcapsule.context)

\* C8: a value issue_challenge(bits) returns is above 0, below Q and below
\* 2^min(bits, bitlength(Q)).
IssueRange ==
    ipc = "returned"
        => /\ 0 < candidate /\ candidate < Q
           /\ candidate < Pow2(Min(bits, BitLength(Q)))

IssueRangeWitness == ipc = "returned" /\ bits = 2 /\ candidate = 3

\* C9: for every bits >= 0 the loop of issue_challenge returns, the random
\* source being fair.
IssueTerminates == (ipc = "sample" /\ bits >= 0) ~> (ipc = "returned")

\* C10: SchnorrProver(secret) raises exactly when secret is not in (0, Q),
\* SchnorrVerifier(public_key) exactly when public_key is not in (0, P); a
\* construction that raises yields no object, one that does not holds the value.
ConstructionRange ==
    spc = "constructed"
        => /\ built.kind = "prover"
                 => (built.raised <=> ~(0 < built.given /\ built.given < Q))
           /\ built.kind = "verifier"
                 => (built.raised <=> ~(0 < built.given /\ built.given < P))
           /\ ~built.raised => built.held = built.given

ConstructionRangeWitness ==
    /\ spc = "constructed" /\ built.kind = "verifier"
    /\ built.given = P /\ built.raised

\* no two records of a users list share an alias that is present, and no two
\* share a credential id
UniqueRecords(users) ==
    \A i, j \in 1..Len(users) :
        i < j => /\ users[i].alias.some => users[i].alias # users[j].alias
                 /\ users[i].credential_id # users[j].credential_id

\* C11: when two add_user calls on one store file overlap, they do not both
\* return a record with the same alias or the same credential id, and the
\* stored users never hold two records with the same alias or credential id.
ConcurrentRegistrationSerialized ==
    overlap
        => /\ \A p, q \in Procs :
                 (p # q /\ apc[p] = "returned" /\ apc[q] = "returned")
                     => /\ ret[p].record.alias.some
                              => ret[p].record.alias # ret[q].record.alias
                        /\ ret[p].record.credential_id # ret[q].record.credential_id
           /\ UniqueRecords(file)

\* C12: for a secret x in (0, Q), derive_public_key(x) is G^x mod P, lies in
\* (0, P), and is the public key an earlier call with the same x returned.
DerivePublicKeyDeterministic ==
    /\ spc \in {"registered", "derived"}
          => /\ publicKey = ModExp(G, regSecret, P)
             /\ 0 < publicKey /\ publicKey < P
    /\ (spc = "derived" /\ 0 < built.given /\ built.given < Q)
          => /\ ~built.raised
             /\ built.held = ModExp(G, built.given, P)
             /\ 0 < built.held /\ built.held < P
             /\ built.given = regSecret => built.held = publicKey

DerivePublicKeyWitness ==
    /\ spc = "derived" /\ built.given = regSecret /\ regSecret = Q - 1
    /\ built.held = publicKey

\* C13: the proof respond_to_challenge(E, t, C1) is rejected against the
\* capsule mint_capsule(E, C2) of another context C2, for every challenge t.
ProofBoundToContext ==
    (rpc = "verified" /\ tamper = "othercontext") => result = "false"

ProofBoundToContextWitness ==
    /\ rpc = "verified" /\ tamper = "othercontext"
    /\ vcapsule.context # context
    /\ vcapsule.vector = capsule.vector
    /\ vproof.orbital = Expected(vcapsule.vector, vchallenge % Q)
    /\ result = "false"

\* C14: from_dict(to_dict()) of a minted capsule does not raise and returns a
\* capsule equal to it in every field; from_dict(to_dict()) of a proof that
\* respond_to_challenge returned equals the proof.  int(hex(n), 16) is n for
\* every integer a serialized capsule of the model carries.
SerializationRoundTrip ==
    /\ (rpc \in {"loaded", "rejected"} /\ tamper = "none")
          => (loaded = "ok" /\ vcapsule = capsule)
    /\ rpc = "proofloaded"
          => /\ loaded = "ok" /\ vproof = proof
             /\ \A n \in Components : ~IntFromHexRaises(Hex(n)) /\ IntFromHex(Hex(n)) = n

SerializationRoundTripWitness ==
    /\ rpc = "proofloaded" /\ loaded = "ok" /\ vproof = proof
    /\ proof.orbital = 9 /\ proof.response > 0
    /\ FromDict(ToDict(capsule)).capsule = capsule
    /\ \E i \in 1..3 : capsule.vector[i] >= 9

\* whether a serialized round satisfies G^response = commitment * y^challenge
TranscriptVerifies(tr) ==
    PyPow(G, IntFromHex(tr.response), P)
        = (IntFromHex(tr.commitment) * PyPow(publicKey, IntFromHex(tr.challenge), P)) % P

\* C15: for a secret in (0, Q) authenticate raises nothing and runs ROUNDS
\* rounds whether or not a round fails; it returns ROUNDS transcripts, each
\* round appended after the ones run before it, and success is true exactly
\* when every one of them verifies.
RoundOrchestration ==
    /\ [](/\ (spc = "raised") => ~(0 < secret /\ secret < Q)
          /\ (spc = "done")
                => /\ Len(transcripts) = ROUNDS
                   /\ success <=> \A i \in 1..ROUNDS : TranscriptVerifies(transcripts[i]))
    /\ [][spc = "rounds"
             => /\ Len(transcripts') \in {Len(transcripts), Len(transcripts) + 1}
                /\ SubSeq(transcripts', 1, Len(transcripts)) = transcripts]_vars

RoundOrchestrationWitness ==
    /\ spc = "done" /\ ~success /\ Len(transcripts) = ROUNDS
    /\ ~TranscriptVerifies(transcripts[1])
    /\ TranscriptVerifies(transcripts[2])

\* C16: a challenge whose proof from respond_to_challenge is accepted by
\* verify_attestation lies in (0, Q): 0, a multiple of Q and every value from
\* Q on lead to no accepted attestation.
ChallengeRangeEnforced ==
    (rpc = "verified" /\ tamper = "none" /\ result = "true")
        => (0 < challenge /\ challenge < Q)

\* C17: a session id login_finish has been called with is no longer in the
\* session map, whatever the outcome of that call; a later login_finish with
\* it is answered 404 'Unknown session'; no session has its challenge checked
\* against more than one response.
SessionsSingleUse ==
    /\ \A session \in finished : session \notin DOMAIN sessions
    /\ (reply.call = "finish" /\ reply.again)
          => (reply.status = 404 /\ reply.detail = "Unknown session")
    /\ \A i, j \in 1..Len(checked) : i # j => checked[i] # checked[j]

SessionsSingleUseWitness ==
    /\ reply.call = "finish" /\ reply.again
    /\ reply.status = 404 /\ reply.detail = "Unknown session"
    /\ Len(checked) >= 1 /\ checked[1] = reply.session
    /\ \E session \in DOMAIN sessions : session # reply.session

\* C18: every session login_start created is eventually removed from the
\* session map, login_start requests going on being answered, also when no
\* login_finish is ever called with it.
SessionsShortLived ==
    \A session \in 1..MaxSessions :
        (session \in DOMAIN sessions) ~> (session \notin DOMAIN sessions)

\* C19: when add_user calls follow one another on a store that started empty,
\* no two stored records share an alias that is not None and no two share a
\* credential id.
StoreUniqueSequential == UniqueRecords(file)

\* C20: attempts against one capsule change neither the capsule nor what
\* mint_capsule returns: after earlier attempts, accepted or rejected, the
\* capsule is still mint_capsule(E, C), a second mint_capsule(E, C) returns the
\* same capsule, and an honest attempt with an issued challenge is accepted.
ReusableStateless ==
    /\ rpc # "start" => capsule = mint_capsule(essence, context)
    /\ reminted # NoCapsule => reminted = capsule
    /\ (Len(history) >= 1 /\ rpc = "verified" /\ tamper = "none"
            /\ challenge \in IssuedChallenges)
          => result = "true"

ReusableStatelessWitness ==
    /\ Len(history) >= 1 /\ history[1] = "false"
    /\ rpc = "verified" /\ tamper = "none"
    /\ challenge \in IssuedChallenges
    /\ reminted = capsule
    /\ result = "true"

\* C21: an add_user call that was given a secret s either registers
\* G^s mod P and returns s, or raises when s is not in (0, Q); it does not
\* register under a secret other than the one supplied.
SuppliedSecretKept ==
    \A p \in Procs :
        (call[p].secret.some /\ apc[p] \in {"checked", "returned", "raised"})
            => IF apc[p] = "raised"
               THEN ret[p].record = NoRecord
               ELSE /\ 0 < call[p].secret.value /\ call[p].secret.value < Q
                    /\ ret[p].secret = call[p].secret.value
                    /\ ret[p].record.public_key = ModExp(G, call[p].secret.value, P)

\* the users list holds the record
Stored(users, record) ==
    \E i \in 1..Len(users) : users[i] = UserRecordToDict(record)

\* C22: when two add_user calls on one store file, with different aliases and
\* different secrets, have both returned a record, the stored users hold both
\* records, however their load and save steps were interleaved.
NoLostRegistration ==
    \A p, q \in Procs :
        (/\ p # q
         /\ apc[p] = "returned" /\ apc[q] = "returned"
         /\ ret[p].record.alias.some /\ ret[q].record.alias.some
         /\ ret[p].record.alias # ret[q].record.alias
         /\ ret[p].secret # ret[q].secret)
            => Stored(file, ret[p].record) /\ Stored(file, ret[q].record)

\* the public key a credential id was computed from
KeyOfCredential(credential_id) ==
    CHOOSE k \in 1..(P - 1) : CalculateCredentialId(k) = credential_id

\* the number a hex text sent by a client stands for
SentNumber(text) == CHOOSE v \in 0..P : Hex(v) = text

\* G^r in the group of residues modulo P, r of either sign
GroupPower(r) ==
    IF r >= 0 THEN ModExp(G, r, P)
    ELSE CHOOSE y \in 1..(P - 1) : (y * ModExp(G, -r, P)) % P = 1

\* C23: a session holds the credential id and the commitment of the
\* login_start request that created it and the challenge drawn for that
\* request; a challenge is handed out only in the answer to a request whose
\* commitment was received; login_finish answers success = true exactly when
\* G^response mod P = commitment * public_key^challenge mod P for that triple.
CommitBeforeChallenge ==
    /\ \A session \in DOMAIN sessions :
          /\ session \in DOMAIN started
          /\ sessions[session].credential_id = started[session].credential_id
          /\ sessions[session].commitment = SentNumber(started[session].commitment_text)
          /\ sessions[session].challenge = started[session].challenge
    /\ reply.call = "start"
          => /\ reply.challenge.some <=> reply.status = 200
             /\ reply.status = 200
                   => /\ reply.session \in DOMAIN started
                      /\ reply.challenge.value = started[reply.session].challenge
                      /\ SentNumber(started[reply.session].commitment_text) > 0
    /\ (reply.call = "finish" /\ reply.status = 200)
          => /\ reply.session \in DOMAIN started
             /\ LET tr == started[reply.session]
                IN  reply.success <=>
                       (GroupPower(reply.response)
                          = (SentNumber(tr.commitment_text)
                               * ModExp(KeyOfCredential(tr.credential_id), tr.challenge, P)) % P)

CommitBeforeChallengeWitness ==
    /\ DOMAIN started = {1, 2}
    /\ started[1].challenge # started[2].challenge
    /\ started[1].credential_id # started[2].credential_id
    /\ started[1].challenge % Q # 0
    /\ reply.call = "finish" /\ reply.status = 200
    /\ reply.session = 1
    /\ reply.success

\* C24: a proof respond_to_challenge returned has its response in [0, Q) and
\* its orbital in (0, P); a proof verify_attestation accepts has its response
\* in [0, Q), and the proof accepted for the minted capsule and the challenge
\* answered is the one respond_to_challenge returned.
ProofFieldRanges ==
    /\ proof # NoProof
          => /\ 0 <= proof.response /\ proof.response < Q
             /\ 0 < proof.orbital /\ proof.orbital < P
    /\ (rpc = "verified" /\ result = "true")
          => /\ 0 <= vproof.response /\ vproof.response < Q
             /\ (vcapsule = capsule /\ vchallenge = challenge) => vproof = proof

====
